---- MODULE Spec2Model ----
(***************************************************************************)
(* Model of src/src/main.rs: an in-memory table of five accounts, each     *)
(* behind a tokio RwLock, served by two axum handlers                      *)
(* (create_transaction, view_extrato).                                     *)
(*                                                                         *)
(* TLC's integers are 32 bits wide, so the i64 of the program is modelled  *)
(* as a two's complement integer of IntBits bits; the arithmetic of        *)
(* Account::transact is modelled at that width, with the two outcomes a    *)
(* build can give an overflowing +, +=, -= : a panic (overflow-checks on,  *)
(* the dev profile) or a wrap-around (overflow-checks off, the release     *)
(* profile).                                                               *)
(***************************************************************************)
EXTENDS Integers, Sequences, FiniteSets, TLC

\* ------------------------------------------------------------------ bounds
IntBits == 28
NumHandlers == 2
MaxRequests == 2
MaxHistRequests == 4
PreAccepted == 10
MaxInstant == 1
NumLiveHandlers == 3
MaxLiveRequests == 1

\* ------------------------------------------------------- program constants
HistoryCapacity == 10
DescriptionMaxLen == 10
Limit1 == 100000
Limit2 == 80000
Limit3 == 1000000
Limit4 == 10000000
Limit5 == 500000
U8Max == 255

\* ----------------------------------------------------------------- integers
IntMax == 2^(IntBits - 1) - 1
IntMin == -IntMax - 1

\* x is outside the range of the machine integer
Overflows(x) == x < IntMin \/ x > IntMax

\* two's complement wrap-around of x, for x within one range of the bounds
Wrap(x) ==
    IF x > IntMax THEN (x - IntMax) + (IntMin - 1)
    ELSE IF x < IntMin THEN (x - IntMin) + (IntMax + 1)
    ELSE x

\* --------------------------------------------------------------- RingBuffer
RingBufferNew(capacity) == [buf |-> <<>>, cap |-> capacity]

RingBufferDefault == RingBufferNew(HistoryCapacity)

\* pop_back of an empty deque is a no-op
PopBack(s) == IF Len(s) = 0 THEN s ELSE SubSeq(s, 1, Len(s) - 1)

\* mutant: push that never evicts
RingBufferPushNoEvict(rb, item) == [rb EXCEPT !.buf = <<item>> \o rb.buf]

\* mutant: push that evicts at the front (pop_front for pop_back) when full
RingBufferPushEvictFront(rb, item) ==
    IF Len(rb.buf) = rb.cap
    THEN [rb EXCEPT !.buf = <<item>> \o Tail(rb.buf)]
    ELSE [rb EXCEPT !.buf = <<item>> \o rb.buf]

RingBufferPush(rb, item) ==
    IF Len(rb.buf) = rb.cap
    THEN [rb EXCEPT !.buf = <<item>> \o PopBack(rb.buf)]
    ELSE [rb EXCEPT !.buf = <<item>> \o rb.buf]

\* ------------------------------------------------------------------ Account
AccountWithLimit(limit) ==
    [balance |-> 0, limit |-> limit, transactions |-> RingBufferDefault]

\* One arithmetic operation of transact: "panic" when it overflows and the
\* build checks overflow, the wrapped value otherwise.
Arith(x, checks) ==
    IF Overflows(x)
    THEN IF checks THEN [panic |-> TRUE, val |-> 0]
         ELSE [panic |-> FALSE, val |-> Wrap(x)]
    ELSE [panic |-> FALSE, val |-> x]

\* mutant: the debit is subtracted before the limit is checked
TransactBalanceDebitFirst(acc, t, checks) ==
    IF t.kind = "C"
    THEN LET s == Arith(acc.balance + t.value, checks)
         IN  IF s.panic THEN [res |-> "panic", balance |-> acc.balance]
             ELSE [res |-> "ok", balance |-> s.val]
    ELSE LET d == Arith(acc.balance - t.value, checks)
         IN  IF d.panic THEN [res |-> "panic", balance |-> acc.balance]
             ELSE LET a == Arith(acc.limit + d.val, checks)
                  IN  IF a.panic THEN [res |-> "panic", balance |-> acc.balance]
                      ELSE IF a.val >= 0 THEN [res |-> "ok", balance |-> d.val]
                      ELSE [res |-> "err", balance |-> d.val]

\* The first half of Account::transact: the limit check and the update of
\* balance. res is "ok" (go on to push), "err" (Limite insuficiente) or
\* "panic" (nothing was written).
TransactBalance(acc, t, checks) ==
    IF t.kind = "C"
    THEN LET s == Arith(acc.balance + t.value, checks)
         IN  IF s.panic THEN [res |-> "panic", balance |-> acc.balance]
             ELSE [res |-> "ok", balance |-> s.val]
    ELSE LET a == Arith(acc.limit + acc.balance, checks)
         IN  IF a.panic THEN [res |-> "panic", balance |-> acc.balance]
             ELSE IF a.val >= t.value
             THEN LET d == Arith(acc.balance - t.value, checks)
                  IN  IF d.panic THEN [res |-> "panic", balance |-> acc.balance]
                      ELSE [res |-> "ok", balance |-> d.val]
             ELSE [res |-> "err", balance |-> acc.balance]

\* mutant: an accepted debit is also taken off the limit
TransactPushUsesLimit(acc, t) ==
    [acc EXCEPT !.transactions = RingBufferPush(acc.transactions, t),
                !.limit = IF t.kind = "D" THEN @ - t.value ELSE @]

\* The second half: self.transactions.push(transaction)
TransactPush(acc, t) ==
    [acc EXCEPT !.transactions = RingBufferPush(acc.transactions, t)]

\* Account::transact as a whole
Transact(acc, t, checks) ==
    LET b == TransactBalance(acc, t, checks)
    IN  IF b.res = "ok"
        THEN [res |-> "ok", acc |-> TransactPush([acc EXCEPT !.balance = b.balance], t)]
        ELSE [res |-> b.res, acc |-> acc]

\* ------------------------------------------------------------ account table
AccountIds == {1, 2, 3, 4, 5}

SeedLimit(id) ==
    CASE id = 1 -> Limit1
      [] id = 2 -> Limit2
      [] id = 3 -> Limit3
      [] id = 4 -> Limit4
      [] id = 5 -> Limit5

account_in_memory == [id \in AccountIds |-> AccountWithLimit(SeedLimit(id))]

\* ----------------------------------------------------------------- requests
Handlers == 1..NumHandlers
Instants == 0..MaxInstant
Absent == -1

DescOk == <<1>>
DescEmpty == <<>>
DescTooLong == <<1, 1, 1, 1, 1, 1, 1, 1, 1, 1, 1>>

Body(valor, tipo, descricao, realizada_em) ==
    [valor |-> valor, tipo |-> tipo, descricao |-> descricao,
     realizada_em |-> realizada_em]

NoBody == Body(0, "-", <<>>, Absent)

Post(id, body) == [method |-> "POST", id |-> id, body |-> body]
Get(id) == [method |-> "GET", id |-> id, body |-> NoBody]

NoRequest == [method |-> "-", id |-> 0, body |-> NoBody]
NoTransaction == [value |-> 0, kind |-> "-", description |-> <<>>, create_at |-> 0]
NoResponse == [status |-> 0, saldo |-> 0, limite |-> 0, ultimas |-> <<>>, seen |-> 0]
NoAccount == [balance |-> 0, limit |-> 0, transactions |-> RingBufferNew(0)]

\* The requests the clients of the concurrent specification send: debits of
\* every value and credits of the least, the unit and the greatest value on
\* account 2, one credit on account 1, requests on an id outside the table,
\* bodies and a path the extractors reject, statements.
Values == {IntMin, 1, Limit2, Limit2 + 1, IntMax}

Requests ==
    {Post(2, Body(v, "D", DescOk, 0)) : v \in Values}
    \cup {Post(2, Body(v, "C", DescOk, 0)) : v \in {IntMin, 1, IntMax}}
    \cup {Post(id, Body(1, "C", DescOk, 0)) : id \in {1, 99, U8Max + 1}}
    \cup {Post(2, Body(1, "C", DescTooLong, 0))}
    \cup {Post(99, Body(1, "C", DescEmpty, 0))}
    \cup {Post(2, Body(1, "X", DescOk, 0))}
    \cup {Get(id) : id \in {2, 99}}

\* ------------------------------------------------------------------- decode
\* Description::try_from
DescriptionTryFrom(value) ==
    IF Len(value) = 0 \/ Len(value) > DescriptionMaxLen THEN "err" ELSE "ok"

\* mutant: the description is taken as it comes (no try_from)
BodyDecodesAnyDescription(b) == b.tipo \in {"C", "D"}

\* serde's decoding of the body into a Transaction
BodyDecodes(b) == b.tipo \in {"C", "D"} /\ DescriptionTryFrom(b.descricao) = "ok"

DecodeTransaction(b, now) ==
    [value |-> b.valor, kind |-> b.tipo, description |-> b.descricao,
     create_at |-> IF b.realizada_em = Absent THEN now ELSE b.realizada_em]

\* Path<u8>
PathDecodes(id) == id \in 0..U8Max

\* --------------------------------------------------------------------- lock
\* tokio::sync::RwLock: a fair (FIFO) queue of waiters; a new reader does not
\* overtake a queued waiter.
LockFree == [writer |-> 0, readers |-> {}, waiters |-> <<>>]

\* mutant: a reader is let in beside a writer
CanReadBesideWriter(lk) == TRUE

\* mutant: a writer is let in beside readers
CanWriteBesideReaders(lk) == lk.writer = 0

CanWrite(lk) == lk.writer = 0 /\ lk.readers = {}
CanRead(lk) == lk.writer = 0

\* acc.write(): taken at once when free and nobody queued, queued otherwise
LockWrite(lk, h) ==
    IF CanWrite(lk) /\ lk.waiters = <<>>
    THEN [lk EXCEPT !.writer = h]
    ELSE [lk EXCEPT !.waiters = Append(@, [h |-> h, mode |-> "W"])]

\* mutant: a reader joins the readers that hold the lock, whoever is queued
LockReadOvertaking(lk, h) ==
    IF CanRead(lk)
    THEN [lk EXCEPT !.readers = @ \cup {h}]
    ELSE [lk EXCEPT !.waiters = Append(@, [h |-> h, mode |-> "R"])]

\* acc.read()
LockRead(lk, h) ==
    IF CanRead(lk) /\ lk.waiters = <<>>
    THEN [lk EXCEPT !.readers = @ \cup {h}]
    ELSE [lk EXCEPT !.waiters = Append(@, [h |-> h, mode |-> "R"])]

\* the released permits go to the waiters at the head of the queue
RECURSIVE Grant(_)
Grant(lk) ==
    IF lk.waiters = <<>> THEN lk
    ELSE LET w == Head(lk.waiters)
         IN  IF w.mode = "W"
             THEN IF CanWrite(lk)
                  THEN [lk EXCEPT !.writer = w.h, !.waiters = Tail(@)]
                  ELSE lk
             ELSE IF CanRead(lk)
                  THEN Grant([lk EXCEPT !.readers = @ \cup {w.h}, !.waiters = Tail(@)])
                  ELSE lk

\* drop of a guard
Unlock(lk, h) ==
    Grant([lk EXCEPT !.writer = IF @ = h THEN 0 ELSE @, !.readers = @ \ {h}])

\* -------------------------------------------------------------------- state
VARIABLES
    overflow_checks,  \* the build: TRUE panics on overflow, FALSE wraps
    account,          \* the table: id -> Account
    lock,             \* id -> the RwLock around the account
    pc,               \* handler -> where its request is
    req,              \* handler -> the request it serves
    tx,               \* handler -> the decoded Transaction
    resp,             \* handler -> the response it has built
    pre,              \* handler -> the account as the handler found it under the write lock
    accepted,         \* id -> the transactions transact accepted, oldest first
    sumOk,            \* id -> sum of the signed values of the POSTs whose handler returned 200
    nreq              \* requests received so far

vars == <<overflow_checks, account, lock, pc, req, tx, resp, pre, accepted, sumOk, nreq>>

Init ==
    /\ overflow_checks \in BOOLEAN
    /\ account = account_in_memory
    /\ lock = [id \in AccountIds |-> LockFree]
    /\ pc = [h \in Handlers |-> "idle"]
    /\ req = [h \in Handlers |-> NoRequest]
    /\ tx = [h \in Handlers |-> NoTransaction]
    /\ resp = [h \in Handlers |-> NoResponse]
    /\ pre = [h \in Handlers |-> NoAccount]
    /\ accepted = [id \in AccountIds |-> <<>>]
    /\ sumOk = [id \in AccountIds |-> 0]
    /\ nreq = 0

Status(code) == [NoResponse EXCEPT !.status = code]

\* the handlers that the release of a lock woke up
Woken(lk, p) ==
    [g \in DOMAIN p |->
        IF p[g] = "waitW" /\ lk.writer = g THEN "transact"
        ELSE IF p[g] = "waitR" /\ g \in lk.readers THEN "read"
        ELSE p[g]]

\* ------------------------------------------------------------------ actions
\* a request arrives on a connection
Receive(h, R, max) ==
    /\ pc[h] = "idle"
    /\ nreq < max
    /\ \E r \in R : req' = [req EXCEPT ![h] = r]
    /\ nreq' = nreq + 1
    /\ pc' = [pc EXCEPT ![h] = "extract"]
    /\ UNCHANGED <<overflow_checks, account, lock, tx, resp, pre, accepted, sumOk>>

\* the extractors: Path<u8>, then Json<Transaction> for a POST
Extract(h) ==
    /\ pc[h] = "extract"
    /\ IF ~PathDecodes(req[h].id)
       THEN /\ resp' = [resp EXCEPT ![h] = Status(400)]
            /\ pc' = [pc EXCEPT ![h] = "respond"]
            /\ tx' = tx
       ELSE IF req[h].method = "GET"
       THEN /\ pc' = [pc EXCEPT ![h] = "lookup"]
            /\ UNCHANGED <<resp, tx>>
       ELSE IF ~BodyDecodes(req[h].body)
       THEN /\ resp' = [resp EXCEPT ![h] = Status(422)]
            /\ pc' = [pc EXCEPT ![h] = "respond"]
            /\ tx' = tx
       ELSE /\ \E now \in Instants :
                 tx' = [tx EXCEPT ![h] = DecodeTransaction(req[h].body, now)]
            /\ pc' = [pc EXCEPT ![h] = "lookup"]
            /\ resp' = resp
    /\ UNCHANGED <<overflow_checks, account, lock, req, pre, accepted, sumOk, nreq>>

\* mutant: one lock, that of the first account, guards the whole table
LookupTableLock(h) ==
    /\ pc[h] = "lookup"
    /\ LET id == req[h].id
       IN  IF id \notin AccountIds
           THEN /\ resp' = [resp EXCEPT ![h] = Status(404)]
                /\ pc' = [pc EXCEPT ![h] = "respond"]
                /\ UNCHANGED <<lock, pre>>
           ELSE IF req[h].method = "POST"
           THEN LET lk == LockWrite(lock[1], h)
                IN  /\ lock' = [lock EXCEPT ![1] = lk]
                    /\ pc' = [pc EXCEPT ![h] = IF lk.writer = h THEN "transact" ELSE "waitW"]
                    /\ UNCHANGED <<resp, pre>>
           ELSE LET lk == LockRead(lock[1], h)
                IN  /\ lock' = [lock EXCEPT ![1] = lk]
                    /\ pc' = [pc EXCEPT ![h] = IF h \in lk.readers THEN "read" ELSE "waitR"]
                    /\ UNCHANGED <<resp, pre>>
    /\ UNCHANGED <<overflow_checks, account, req, tx, accepted, sumOk, nreq>>

\* mutant: an id that is not in the table falls back to the first account
LookupFallback(h) ==
    /\ pc[h] = "lookup"
    /\ LET id == IF req[h].id \in AccountIds THEN req[h].id ELSE 1
       IN  IF req[h].method = "POST"
           THEN LET lk == LockWrite(lock[id], h)
                IN  /\ lock' = [lock EXCEPT ![id] = lk]
                    /\ pc' = [pc EXCEPT ![h] = IF lk.writer = h THEN "transact" ELSE "waitW"]
                    /\ UNCHANGED <<resp, pre>>
           ELSE LET lk == LockRead(lock[id], h)
                IN  /\ lock' = [lock EXCEPT ![id] = lk]
                    /\ pc' = [pc EXCEPT ![h] = IF h \in lk.readers THEN "read" ELSE "waitR"]
                    /\ UNCHANGED <<resp, pre>>
    /\ UNCHANGED <<overflow_checks, account, req, tx, accepted, sumOk, nreq>>

\* account_in_memory.get(&account_id), then acc.write() or acc.read()
Lookup(h) ==
    /\ pc[h] = "lookup"
    /\ LET id == req[h].id
       IN  IF id \notin AccountIds
           THEN /\ resp' = [resp EXCEPT ![h] = Status(404)]
                /\ pc' = [pc EXCEPT ![h] = "respond"]
                /\ UNCHANGED <<lock, pre>>
           ELSE IF req[h].method = "POST"
           THEN LET lk == LockWrite(lock[id], h)
                IN  /\ lock' = [lock EXCEPT ![id] = lk]
                    /\ pc' = [pc EXCEPT ![h] = IF lk.writer = h THEN "transact" ELSE "waitW"]
                    /\ UNCHANGED <<resp, pre>>
           ELSE LET lk == LockRead(lock[id], h)
                IN  /\ lock' = [lock EXCEPT ![id] = lk]
                    /\ pc' = [pc EXCEPT ![h] = IF h \in lk.readers THEN "read" ELSE "waitR"]
                    /\ UNCHANGED <<resp, pre>>
    /\ UNCHANGED <<overflow_checks, account, req, tx, accepted, sumOk, nreq>>

\* account.transact(transaction), up to the update of balance. A panic unwinds
\* through the guard (the lock is released) and ends the connection's task.
TransactStep(h) ==
    /\ pc[h] = "transact"
    /\ LET id == req[h].id
           b == TransactBalance(account[id], tx[h], overflow_checks)
       IN  /\ pre' = [pre EXCEPT ![h] = account[id]]
           /\ account' = [account EXCEPT ![id].balance = b.balance]
           /\ IF b.res = "ok"
              THEN /\ pc' = [pc EXCEPT ![h] = "push"]
                   /\ UNCHANGED <<resp, lock>>
              ELSE IF b.res = "err"
              THEN /\ pc' = [pc EXCEPT ![h] = "built"]
                   /\ resp' = [resp EXCEPT ![h] = Status(422)]
                   /\ lock' = lock
              ELSE LET lk == Unlock(lock[id], h)
                   IN  /\ lock' = [lock EXCEPT ![id] = lk]
                       /\ pc' = Woken(lk, [pc EXCEPT ![h] = "panicked"])
                       /\ resp' = resp
    /\ UNCHANGED <<overflow_checks, req, tx, accepted, sumOk, nreq>>

\* self.transactions.push(transaction); Ok(())
PushStep(h) ==
    /\ pc[h] = "push"
    /\ LET id == req[h].id
       IN  /\ account' = [account EXCEPT ![id] = TransactPush(@, tx[h])]
           /\ accepted' = [accepted EXCEPT ![id] = Append(@, tx[h])]
    /\ pc' = [pc EXCEPT ![h] = "ok"]
    /\ UNCHANGED <<overflow_checks, lock, req, tx, resp, pre, sumOk, nreq>>

\* Ok(Json(json!({.., "limite": account.limit, "saldo": account.balance})))
BuildOk(h) ==
    /\ pc[h] = "ok"
    /\ LET acc == account[req[h].id]
       IN  resp' = [resp EXCEPT ![h] =
                       [Status(200) EXCEPT !.saldo = acc.balance, !.limite = acc.limit]]
    /\ pc' = [pc EXCEPT ![h] = "built"]
    /\ UNCHANGED <<overflow_checks, account, lock, req, tx, pre, accepted, sumOk, nreq>>

\* view_extrato: "saldo": {"total": account.balance, "limite": account.limit, ..}
ReadSaldo(h) ==
    /\ pc[h] = "read"
    /\ LET acc == account[req[h].id]
       IN  resp' = [resp EXCEPT ![h] =
                       [Status(200) EXCEPT !.saldo = acc.balance, !.limite = acc.limit,
                                           !.seen = Len(accepted[req[h].id])]]
    /\ pc' = [pc EXCEPT ![h] = "read2"]
    /\ UNCHANGED <<overflow_checks, account, lock, req, tx, pre, accepted, sumOk, nreq>>

\* mutant: the history is drained into the response
ReadTransactionsDraining(h) ==
    /\ pc[h] = "read2"
    /\ resp' = [resp EXCEPT ![h].ultimas = account[req[h].id].transactions.buf]
    /\ account' = [account EXCEPT ![req[h].id].transactions.buf = <<>>]
    /\ pc' = [pc EXCEPT ![h] = "built"]
    /\ UNCHANGED <<overflow_checks, lock, req, tx, pre, accepted, sumOk, nreq>>

\* view_extrato: "ultimas_transacoes": account.transactions
ReadTransactions(h) ==
    /\ pc[h] = "read2"
    /\ resp' = [resp EXCEPT ![h].ultimas = account[req[h].id].transactions.buf]
    /\ pc' = [pc EXCEPT ![h] = "built"]
    /\ UNCHANGED <<overflow_checks, account, lock, req, tx, pre, accepted, sumOk, nreq>>

\* mutant: the guard lives on while the response is written
DropGuardWithResponse(h) ==
    /\ pc[h] = "built"
    /\ pc' = [pc EXCEPT ![h] = "respond"]
    /\ UNCHANGED <<overflow_checks, account, lock, req, tx, resp, pre, accepted, sumOk, nreq>>

\* the end of the Some(acc) arm: the guard is dropped
DropGuard(h) ==
    /\ pc[h] = "built"
    /\ LET id == req[h].id
           lk == Unlock(lock[id], h)
       IN  /\ lock' = [lock EXCEPT ![id] = lk]
           /\ pc' = Woken(lk, [pc EXCEPT ![h] = "respond"])
    /\ UNCHANGED <<overflow_checks, account, req, tx, resp, pre, accepted, sumOk, nreq>>

\* signed value of a transaction: +value for a credit, -value for a debit
Delta(t) == IF t.kind = "C" THEN t.value ELSE -t.value

\* sumOk once the handler of h has returned
Returned(h) ==
    IF pc[h] = "respond" /\ req[h].method = "POST" /\ resp[h].status = 200
    THEN [sumOk EXCEPT ![req[h].id] = @ + Delta(tx[h])]
    ELSE sumOk

\* the response is written to the client; the connection is idle again
Respond(h) ==
    /\ pc[h] = "respond"
    /\ sumOk' = Returned(h)
    /\ pc' = [pc EXCEPT ![h] = "idle"]
    /\ req' = [req EXCEPT ![h] = NoRequest]
    /\ tx' = [tx EXCEPT ![h] = NoTransaction]
    /\ resp' = [resp EXCEPT ![h] = NoResponse]
    /\ pre' = [pre EXCEPT ![h] = NoAccount]
    /\ UNCHANGED <<overflow_checks, account, lock, accepted, nreq>>

\* the task of a connection whose handler panicked, or whose client went away,
\* ends without a response
ConnectionClosed(h) ==
    /\ pc[h] \in {"panicked", "cancelled"}
    /\ pc' = [pc EXCEPT ![h] = "idle"]
    /\ req' = [req EXCEPT ![h] = NoRequest]
    /\ tx' = [tx EXCEPT ![h] = NoTransaction]
    /\ resp' = [resp EXCEPT ![h] = NoResponse]
    /\ pre' = [pre EXCEPT ![h] = NoAccount]
    /\ UNCHANGED <<overflow_checks, account, lock, accepted, sumOk, nreq>>

\* mutant: an .await inside the critical section of the writer
SuspendedAlsoInTransact(p) == p \in {"extract", "waitW", "waitR", "respond", "push"}

\* The places where a handler is suspended: reading the body, waiting for the
\* lock (the .await of write() and read()), writing the response. (The lock is
\* handed to a queued waiter and the waiter resumed in one step.)
Suspended(p) == p \in {"extract", "waitW", "waitR", "respond"}

\* lk without h among its waiters
Dequeue(lk, h) ==
    [lk EXCEPT !.waiters = SelectSeq(@, LAMBDA w : w.h # h)]

\* The client disconnects and the future of the handler is dropped where it is
\* suspended: it leaves the queue of the lock it waits for, and a guard it holds
\* is dropped with it, as are the request and the transaction; of the response
\* the status is remembered until the connection is closed.
Cancel(h) ==
    /\ Suspended(pc[h])
    /\ LET id == req[h].id
       IN  IF id \in AccountIds
           THEN LET lk == Unlock(Dequeue(lock[id], h), h)
                IN  /\ lock' = [lock EXCEPT ![id] = lk]
                    /\ pc' = Woken(lk, [pc EXCEPT ![h] = "cancelled"])
           ELSE /\ lock' = lock
                /\ pc' = [pc EXCEPT ![h] = "cancelled"]
    /\ sumOk' = Returned(h)
    /\ req' = [req EXCEPT ![h] = NoRequest]
    /\ tx' = [tx EXCEPT ![h] = NoTransaction]
    /\ resp' = [resp EXCEPT ![h] = Status(resp[h].status)]
    /\ pre' = [pre EXCEPT ![h] = NoAccount]
    /\ UNCHANGED <<overflow_checks, account, accepted, nreq>>

\* one step of the handler of connection h, whose client sends requests of R
Step(h, R, max) ==
    \/ Receive(h, R, max)
    \/ Extract(h)
    \/ Lookup(h)
    \/ TransactStep(h)
    \/ PushStep(h)
    \/ BuildOk(h)
    \/ ReadSaldo(h)
    \/ ReadTransactions(h)
    \/ DropGuard(h)
    \/ Respond(h)
    \/ ConnectionClosed(h)
    \/ Cancel(h)

Next == \E h \in Handlers : Step(h, Requests, MaxRequests)

Spec == Init /\ [][Next]_vars

\* ------------------------------------------------- a long-running account
\* The account after transact accepted txs, one after the other.
RECURSIVE Replay(_, _, _)
Replay(acc, txs, checks) ==
    IF txs = <<>> THEN acc
    ELSE Replay(Transact(acc, Head(txs), checks).acc, Tail(txs), checks)

\* Account 3 has already accepted up to PreAccepted credits of 1, told apart by
\* their descriptions; one client then sends requests one after the other.
PreTx(i) == [value |-> 1, kind |-> "C", description |-> <<i>>, create_at |-> MaxInstant]

HistRequests ==
    {Post(3, Body(1, "C", <<PreAccepted + 1>>, Absent)),
     Post(3, Body(1, "D", <<PreAccepted + 2>>, 0)),
     Post(3, Body(IntMax, "C", DescOk, 0)),
     Post(3, Body(IntMax, "D", DescOk, 0)),
     Post(3, Body(1, "C", DescEmpty, 0)),
     Post(2, Body(1, "C", DescOk, 0)),
     Get(3)}

InitHist ==
    /\ overflow_checks \in BOOLEAN
    /\ \E p \in 0..PreAccepted :
         LET txs == [i \in 1..p |-> PreTx(i)]
         IN  /\ accepted = [id \in AccountIds |-> IF id = 3 THEN txs ELSE <<>>]
             /\ account = [account_in_memory EXCEPT
                              ![3] = Replay(@, txs, overflow_checks)]
             /\ sumOk = [id \in AccountIds |-> IF id = 3 THEN p ELSE 0]
    /\ lock = [id \in AccountIds |-> LockFree]
    /\ pc = [h \in Handlers |-> "idle"]
    /\ req = [h \in Handlers |-> NoRequest]
    /\ tx = [h \in Handlers |-> NoTransaction]
    /\ resp = [h \in Handlers |-> NoResponse]
    /\ pre = [h \in Handlers |-> NoAccount]
    /\ nreq = 0

NextHist == Step(1, HistRequests, MaxHistRequests)

SpecHist == InitHist /\ [][NextHist]_vars

\* the same accounts, served on every connection at once: statements of
\* account 3 and credits between them
WarmRequests ==
    {Get(3),
     Post(3, Body(1, "C", <<PreAccepted + 1>>, Absent)),
     Post(2, Body(1, "C", DescOk, 0))}

NextWarm == \E h \in Handlers : Step(h, WarmRequests, MaxRequests)

SpecWarm == InitHist /\ [][NextWarm]_vars

\* ------------------------------------------------------------------- claims
Min(a, b) == IF a < b THEN a ELSE b

History(id) == account[id].transactions.buf

\* transact has returned Ok(()) to h, which still holds the write lock
AppliedOk(h) ==
    /\ req[h].method = "POST"
    /\ pc[h] = "ok" \/ (pc[h] = "built" /\ resp[h].status = 200)

\* transact has returned Err("Limite insuficiente") to h, which still holds
\* the write lock and has built the 422
Rejected(h) ==
    /\ req[h].method = "POST"
    /\ pc[h] = "built" /\ resp[h].status = 422

\* transact has ended for h, one way or another
Transacted(h) == AppliedOk(h) \/ Rejected(h) \/ pc[h] = "panicked"

\* no request on account id is in flight
Quiescent(id) == \A h \in Handlers : pc[h] # "idle" => req[h].id # id

\* C1: in every reachable state every account has balance + limit >= 0.
C1_BalanceWithinLimit ==
    \A id \in AccountIds : account[id].balance + account[id].limit >= 0

\* C2: a debit (of a value the data model allows, >= 0) succeeds if and only
\* if balance + limit >= value in the pre-state; when it succeeds the new
\* balance is balance - value and the transaction heads the history.
C2_DebitSucceedsIff ==
    \A h \in Handlers :
        (Transacted(h) /\ tx[h].kind = "D" /\ tx[h].value >= 0) =>
            /\ AppliedOk(h) <=> (pre[h].balance + pre[h].limit >= tx[h].value)
            /\ AppliedOk(h) =>
                  /\ account[req[h].id].balance = pre[h].balance - tx[h].value
                  /\ History(req[h].id) # <<>>
                  /\ Head(History(req[h].id)) = tx[h]

\* C3: a rejected debit (422 from transact) leaves the balance and the
\* history of its account as they were before it: same elements, same order.
C3_RejectedDebitChangesNothing ==
    \A h \in Handlers :
        Rejected(h) =>
            /\ tx[h].kind = "D"
            /\ account[req[h].id].balance = pre[h].balance
            /\ account[req[h].id].transactions = pre[h].transactions
            /\ account[req[h].id].limit = pre[h].limit

C3_Witness ==
    \E h \in Handlers :
        /\ Rejected(h)
        /\ pre[h].transactions.buf # <<>>
        /\ pre[h].balance # 0

\* C4: a credit that does not overflow is accepted, and every accepted
\* transaction (of a value >= 0) moves the balance by exactly +value (credit)
\* or -value (debit).
C4_AcceptedMovesBalanceByValue ==
    \A h \in Handlers :
        (Transacted(h) /\ tx[h].value >= 0) =>
            /\ (tx[h].kind = "C" /\ ~Overflows(pre[h].balance + tx[h].value))
                   => AppliedOk(h)
            /\ AppliedOk(h) =>
                   account[req[h].id].balance = pre[h].balance + Delta(tx[h])

\* C5: a POST whose valor is negative is answered 422 by the decoder and
\* never gets as far as the account table.
C5_NegativeValueRejected ==
    \A h \in Handlers :
        (req[h].method = "POST" /\ req[h].body.valor < 0) =>
            /\ pc[h] \in {"extract", "respond"}
            /\ pc[h] = "respond" => resp[h].status \in {400, 422}

\* the application of t to acc overflows the machine integer
WouldOverflow(acc, t) ==
    IF t.kind = "C"
    THEN Overflows(acc.balance + t.value)
    ELSE Overflows(acc.limit + acc.balance) \/ Overflows(acc.balance - t.value)

\* C6: a transaction whose application would overflow is rejected like a limit
\* violation (Err from transact, 422), balance and history unchanged.
C6_OverflowRejected ==
    \A h \in Handlers :
        (req[h].method = "POST" /\ pc[h] \in {"push", "ok", "built", "panicked"}
            /\ tx[h].value >= 0 /\ WouldOverflow(pre[h], tx[h])) =>
            /\ Rejected(h)
            /\ account[req[h].id] = pre[h]

\* C7: the history of an account holds min(k, 10) transactions, k being the
\* number of transactions the account accepted, never more than 10, and an
\* accepted transaction is its first element as soon as transact returns.
C7_HistoryLength ==
    /\ \A id \in AccountIds :
          /\ Len(History(id)) = Min(Len(accepted[id]), HistoryCapacity)
          /\ Len(History(id)) <= HistoryCapacity
    /\ \A h \in Handlers :
          pc[h] = "ok" => /\ History(req[h].id) # <<>>
                          /\ Head(History(req[h].id)) = tx[h]

C7_Witness ==
    /\ pc[1] = "ok"
    /\ Len(accepted[3]) > HistoryCapacity
    /\ Len(History(3)) = HistoryCapacity
    /\ Head(History(3)) = tx[1]

\* the last n elements of s, the last one first
NewestFirst(s, n) == [i \in 1..n |-> s[Len(s) - i + 1]]

\* C8: the history of an account is exactly the last min(k, 10) transactions
\* the account accepted, the newest first in the order they were applied.
C8_HistoryIsLastAccepted ==
    \A id \in AccountIds :
        History(id) = NewestFirst(accepted[id], Min(Len(accepted[id]), HistoryCapacity))

\* eleven or more accepted, the second transaction now the oldest kept, the
\* order not that of created_at, and a debit just rejected
C8_Witness ==
    /\ Len(accepted[3]) = HistoryCapacity + 1
    /\ Len(History(3)) = HistoryCapacity
    /\ History(3)[1] = accepted[3][HistoryCapacity + 1]
    /\ History(3)[HistoryCapacity] = accepted[3][2]
    /\ History(3)[1].create_at < History(3)[2].create_at
    /\ Rejected(1) /\ req[1].id = 3
    /\ accepted[2] # <<>>

\* C9: once the requests on an account have completed, its balance is the sum
\* of the signed values of the requests answered with success (stated for
\* accounts that accepted only values >= 0).
C9_BalanceIsSumOfSuccesses ==
    \A id \in AccountIds :
        (Quiescent(id) /\ \A i \in 1..Len(accepted[id]) : accepted[id][i].value >= 0)
            => account[id].balance = sumOk[id]

\* the states of account id after each prefix of what it accepted
PrefixStates(id) ==
    {Replay(account_in_memory[id], SubSeq(accepted[id], 1, n), overflow_checks) :
        n \in 0..Len(accepted[id])}

\* C10: a statement is the (balance, limit, history) of the account after some
\* prefix of the transactions the account accepted.
C10_StatementIsPrefixState ==
    \A h \in Handlers :
        (req[h].method = "GET" /\ pc[h] \in {"built", "respond"} /\ resp[h].status = 200) =>
            \E a \in PrefixStates(req[h].id) :
                /\ resp[h].saldo = a.balance
                /\ resp[h].limite = a.limit
                /\ resp[h].ultimas = a.transactions.buf

\* a statement taken while a POST on the same account was waiting for the
\* lock, and overtaken by it before the statement is written out
C10_Witness ==
    \E h \in Handlers :
        /\ req[h].method = "GET" /\ pc[h] = "respond" /\ resp[h].status = 200
        /\ Len(accepted[req[h].id]) > Len(resp[h].ultimas)

\* a POST of h has been answered 200 by its handler
AnsweredOk(h) ==
    /\ req[h].method = "POST"
    /\ pc[h] \in {"built", "respond"} /\ resp[h].status = 200

\* C11: a successful POST returns the limit of the account and, as saldo, the
\* balance the request found plus its own signed value (stated for values
\* >= 0), whatever other requests run on the account.
C11_ReturnsOwnPostState ==
    \A h \in Handlers :
        (AnsweredOk(h) /\ tx[h].value >= 0) =>
            /\ resp[h].saldo = pre[h].balance + Delta(tx[h])
            /\ resp[h].limite = pre[h].limit

\* what the code does keep: the saldo returned is the balance transact left,
\* never one that a later writer changed
C11_ReturnsWhatTransactLeft ==
    \A h \in Handlers :
        AnsweredOk(h) =>
            /\ resp[h].saldo = Transact(pre[h], tx[h], overflow_checks).acc.balance
            /\ resp[h].limite = pre[h].limit

\* h holds no lock and waits for none
Lockless(h) ==
    \A id \in AccountIds :
        /\ lock[id].writer # h
        /\ h \notin lock[id].readers
        /\ \A i \in 1..Len(lock[id].waiters) : lock[id].waiters[i].h # h

\* the body the interface asks for: tipo "C" or "D", descricao of 1 to 10
ValidBody(b) ==
    /\ b.tipo \in {"C", "D"}
    /\ Len(b.descricao) >= 1 /\ Len(b.descricao) <= 10

\* the id is one the path of a handler can carry (a u8)
SmallId(id) == id >= 0 /\ id <= 255

\* the request of h is well formed and names an id that is not in the table
UnknownId(h) ==
    /\ SmallId(req[h].id) /\ req[h].id \notin AccountIds
    /\ req[h].method = "GET" \/ (req[h].method = "POST" /\ ValidBody(req[h].body))

\* C12: a request on an id that is not in the table is answered 404, takes and
\* waits for no lock, and no step of it changes an account or a lock; the ids
\* of the table never change.
C12_UnknownIdNotFound ==
    /\ [](/\ DOMAIN account = AccountIds
          /\ \A h \in Handlers :
                UnknownId(h) =>
                    /\ pc[h] \in {"extract", "lookup", "respond", "cancelled"}
                    /\ pc[h] = "respond" => resp[h].status = 404
                    /\ Lockless(h))
    /\ [][\A h \in Handlers :
            (UnknownId(h) /\ pc'[h] # pc[h]) =>
                /\ account' = account
                /\ lock' = lock
                /\ accepted' = accepted]_vars

\* a 404 given while another request holds the write lock of an account that
\* has a history
C12_Witness ==
    \E h, g \in Handlers :
        /\ UnknownId(h) /\ pc[h] = "respond" /\ resp[h].status = 404
        /\ pc[g] = "ok" /\ lock[req[g].id].writer = g

\* the request of h is a POST whose body fails validation
BadBody(h) ==
    /\ req[h].method = "POST"
    /\ SmallId(req[h].id)
    /\ ~ValidBody(req[h].body)

\* C13: a POST whose body fails validation is answered 422 by the extractor:
\* the handler never looks up or locks an account for it, and no step of the
\* request changes an account, whether or not the id exists.
C13_BadBodyRejectedEarly ==
    /\ [](\A h \in Handlers :
             BadBody(h) =>
                 /\ pc[h] \in {"extract", "respond", "cancelled"}
                 /\ pc[h] = "respond" => resp[h].status = 422
                 /\ Lockless(h))
    /\ [][\A h \in Handlers :
            (BadBody(h) /\ pc'[h] # pc[h]) =>
                /\ account' = account
                /\ lock' = lock
                /\ accepted' = accepted]_vars

\* two 422s, one for an empty description on an id that is not in the table,
\* one for a description of more than 10 on an account
C13_Witness ==
    \E h, g \in Handlers :
        /\ BadBody(h) /\ pc[h] = "respond" /\ resp[h].status = 422
        /\ req[h].id \notin AccountIds /\ Len(req[h].body.descricao) = 0
        /\ BadBody(g) /\ pc[g] = "respond" /\ resp[g].status = 422
        /\ req[g].id \in AccountIds /\ Len(req[g].body.descricao) > DescriptionMaxLen

\* C14: the limit of every account is its seeded value in every reachable
\* state (1: 100000, 2: 80000, 3: 1000000, 4: 10000000, 5: 500000).
C14_LimitsAreSeeded ==
    /\ account[1].limit = 100000
    /\ account[2].limit = 80000
    /\ account[3].limit = 1000000
    /\ account[4].limit = 10000000
    /\ account[5].limit = 500000

\* an account that has accepted a debit and now rejects one
C14_Witness ==
    \E h \in Handlers :
        /\ Rejected(h)
        /\ accepted[req[h].id] # <<>>
        /\ Head(accepted[req[h].id]).kind = "D"

\* h has taken a statement
HasStatement(h) ==
    /\ req[h].method = "GET"
    /\ pc[h] \in {"built", "respond"} /\ resp[h].status = 200

\* C15: no step of a statement request, its cancellation included, changes an
\* account, and a statement is determined by the transactions the account had
\* accepted when it was taken: two statements with no accepted transaction
\* between them are equal.
C15_StatementReadOnly ==
    /\ [][\A h \in Handlers :
            (req[h].method = "GET" /\ pc'[h] # pc[h]) =>
                /\ account' = account
                /\ accepted' = accepted]_vars
    /\ [](\A h \in Handlers :
             HasStatement(h) =>
                 LET id == req[h].id
                     a == Replay(account_in_memory[id],
                                 SubSeq(accepted[id], 1, resp[h].seen), overflow_checks)
                 IN  /\ resp[h].saldo = a.balance
                     /\ resp[h].limite = a.limit
                     /\ resp[h].ultimas = a.transactions.buf)

\* two statements of one account at once, with a full history
C15_Witness ==
    \E h, g \in Handlers :
        /\ h # g /\ HasStatement(h) /\ HasStatement(g)
        /\ req[h].id = req[g].id
        /\ resp[h].seen = resp[g].seen
        /\ Len(resp[h].ultimas) = HistoryCapacity
        /\ resp[h] = resp[g]

\* s is a prefix of t
IsPrefix(s, t) == Len(s) <= Len(t) /\ SubSeq(t, 1, Len(s)) = s

\* C16: whenever no writer is inside its critical section, every account is
\* exactly what the transactions it accepted make it (balance and history
\* together); a cancellation changes no account and takes back nothing that
\* was accepted; a cancelled or finished request holds no lock and is in no
\* queue.
C16_CancelIsAllOrNothing ==
    /\ [](\A id \in AccountIds :
             lock[id].writer = 0 =>
                 account[id] = Replay(account_in_memory[id], accepted[id], overflow_checks))
    /\ [](\A h \in Handlers : pc[h] \in {"idle", "cancelled"} => Lockless(h))
    /\ [][/\ accepted' = accepted \/ \A id \in AccountIds : IsPrefix(accepted[id], accepted'[id])
          /\ \A h \in Handlers :
                (pc[h] # "cancelled" /\ pc'[h] = "cancelled") =>
                    (account' = account /\ accepted' = accepted)]_vars

\* two requests were received and both were cancelled: one after its apply,
\* when its response of 200 was being written (its transaction stays, alone in
\* the history of account 2), the other before any response was built
C16_Witness ==
    \E h, g \in Handlers :
        /\ pc[h] = "cancelled" /\ resp[h].status = 200
        /\ pc[g] = "cancelled" /\ resp[g].status = 0
        /\ nreq = 2
        /\ Len(accepted[2]) = 1
        /\ History(2) = accepted[2]
        /\ lock[2] = LockFree

\* h is between the return of acc.write().await and the end of the Some(acc)
\* arm of create_transaction
InWriteSection(h) ==
    req[h].method = "POST" /\ pc[h] \in {"transact", "push", "ok", "built"}

\* h is between the return of acc.read().await and the end of the Some(acc)
\* arm of view_extrato
InReadSection(h) ==
    req[h].method = "GET" /\ pc[h] \in {"read", "read2", "built"}

\* C17: a handler that is inside the write section of an account shares the
\* account with no other handler, writer or reader; the lock of an account is
\* held by exactly the handlers that are inside a section of that account.
C17_ReaderWriterExclusion ==
    /\ \A h, g \in Handlers :
          (h # g /\ InWriteSection(h) /\ req[g].id = req[h].id) =>
              (~InWriteSection(g) /\ ~InReadSection(g))
    /\ \A h \in Handlers : \A id \in AccountIds :
          /\ (lock[id].writer = h) <=> (InWriteSection(h) /\ req[h].id = id)
          /\ (h \in lock[id].readers) <=> (InReadSection(h) /\ req[h].id = id)
    /\ \A id \in AccountIds : lock[id].writer # 0 => lock[id].readers = {}

\* a writer in the middle of its apply keeps a reader of the same account
\* waiting
C17_Witness ==
    \E h, g \in Handlers :
        /\ InWriteSection(h) /\ pc[h] = "push"
        /\ req[g].method = "GET" /\ req[g].id = req[h].id /\ pc[g] = "waitR"

\* two handlers read one account at the same time
C17_SharedRead ==
    \E h, g \in Handlers :
        h # g /\ InReadSection(h) /\ InReadSection(g) /\ req[g].id = req[h].id

\* two handlers write two accounts at the same time
C17_DisjointWrites ==
    \E h, g \in Handlers :
        InWriteSection(h) /\ InWriteSection(g) /\ req[g].id # req[h].id

\* C18: a handler that is suspended (reading its request, waiting for a lock,
\* writing its response) or gone holds no write lock; while the body is read
\* the handler has asked for no lock, and the handler that asks for or holds a
\* write lock has its transaction decoded; no request is dropped between the
\* acquisition of the write lock and the end of the arm; the handler that
\* writes its response holds no lock.
C18_NoWriteLockWhileSuspended ==
    /\ [](\A h \in Handlers :
            /\ pc[h] \in {"idle", "extract", "waitW", "waitR", "respond", "cancelled"} =>
                  \A id \in AccountIds : lock[id].writer # h
            /\ pc[h] = "extract" => Lockless(h)
            /\ pc[h] = "respond" => Lockless(h)
            /\ (req[h].method = "POST" /\ (pc[h] = "waitW" \/ InWriteSection(h))) =>
                  /\ ValidBody(req[h].body)
                  /\ tx[h] # NoTransaction
                  /\ tx[h].value = req[h].body.valor
                  /\ tx[h].description = req[h].body.descricao)
    /\ [][\A h \in Handlers : InWriteSection(h) => pc'[h] # "cancelled"]_vars

\* a response of 200 is being written while the next writer of the same
\* account is already inside its section
C18_Witness ==
    \E h, g \in Handlers :
        /\ req[h].method = "POST" /\ pc[h] = "respond" /\ resp[h].status = 200
        /\ InWriteSection(g) /\ req[g].id = req[h].id
        /\ lock[req[h].id].writer = g

\* C19: no step of a POST on account id changes the balance, the limit, the
\* history or the lock of another account, and the handler of the POST is
\* neither holder nor waiter of the lock of another account.
C19_OtherAccountsUntouched ==
    /\ [](\A h \in Handlers : \A j \in AccountIds :
            (req[h].method = "POST" /\ j # req[h].id) =>
                /\ lock[j].writer # h
                /\ h \notin lock[j].readers
                /\ \A i \in 1..Len(lock[j].waiters) : lock[j].waiters[i].h # h)
    /\ [][\A h \in Handlers :
            (pc'[h] # pc[h] /\ req[h].method = "POST") =>
                LET others == AccountIds \ {req[h].id}
                IN  /\ account' = account \/ \A j \in others : account'[j] = account[j]
                    /\ accepted' = accepted \/ \A j \in others : accepted'[j] = accepted[j]
                    /\ lock' = lock \/ \A j \in others : lock'[j] = lock[j]]_vars

\* a POST on account 2 has been applied and is answered while another handler
\* is in the middle of its apply on account 1; the other accounts are as seeded
C19_Witness ==
    \E h, g \in Handlers :
        /\ req[h].method = "POST" /\ req[h].id = 2
        /\ pc[h] = "respond" /\ resp[h].status = 200
        /\ InWriteSection(g) /\ req[g].id = 1 /\ pc[g] = "push"
        /\ \A j \in AccountIds \ {1, 2} : account[j] = account_in_memory[j]

\* --------------------------------------------------- a server under load
\* Clients keep sending, without end, the requests that leave account 2 as it
\* is: statements, and debits that are beyond the limit. The requests that
\* change the account are counted: a credit that fills the balance, after which
\* limit + balance overflows in every debit.
LiveHandlers == 1..NumLiveHandlers

StreamRequests ==
    {Get(2), Post(2, Body(IntMax, "D", DescOk, 0))}

CountedRequests ==
    {Post(2, Body(IntMax, "C", DescOk, 0))}

InitLive ==
    /\ overflow_checks \in BOOLEAN
    /\ account = account_in_memory
    /\ lock = [id \in AccountIds |-> LockFree]
    /\ pc = [h \in LiveHandlers |-> "idle"]
    /\ req = [h \in LiveHandlers |-> NoRequest]
    /\ tx = [h \in LiveHandlers |-> NoTransaction]
    /\ resp = [h \in LiveHandlers |-> NoResponse]
    /\ pre = [h \in LiveHandlers |-> NoAccount]
    /\ accepted = [id \in AccountIds |-> <<>>]
    /\ sumOk = [id \in AccountIds |-> 0]
    /\ nreq = 0

\* one more request of the stream arrives on a connection
ReceiveStream(h) ==
    /\ pc[h] = "idle"
    /\ \E r \in StreamRequests : req' = [req EXCEPT ![h] = r]
    /\ pc' = [pc EXCEPT ![h] = "extract"]
    /\ UNCHANGED <<overflow_checks, account, lock, tx, resp, pre, accepted, sumOk, nreq>>

\* the steps the runtime and a client that stays take for a handler
Progress(h) ==
    \/ Extract(h)
    \/ Lookup(h)
    \/ TransactStep(h)
    \/ PushStep(h)
    \/ BuildOk(h)
    \/ ReadSaldo(h)
    \/ ReadTransactions(h)
    \/ DropGuard(h)
    \/ Respond(h)
    \/ ConnectionClosed(h)

NextLive ==
    \E h \in LiveHandlers :
        \/ Step(h, CountedRequests, MaxLiveRequests)
        \/ ReceiveStream(h)

\* every task that can run is run again and again
SpecLive ==
    /\ InitLive
    /\ [][NextLive]_vars
    /\ \A h \in LiveHandlers : WF_vars(Progress(h))

\* the locks h holds or waits for
Held(h) == {id \in AccountIds : lock[id].writer = h \/ h \in lock[id].readers}
Awaited(h) ==
    {id \in AccountIds : \E i \in 1..Len(lock[id].waiters) : lock[id].waiters[i].h = h}

\* C20: a handler holds or waits for at most one lock and does not wait while
\* it holds one; a request that waits for the write side or for the read side
\* of a lock gets it (unless its client goes away first),
\* whatever stream of readers and writers arrives behind it; every request ends
\* and its handler, idle again, holds nothing.
C20_EveryRequestCompletes ==
    /\ [](\A h \in LiveHandlers :
            /\ Cardinality(Held(h) \cup Awaited(h)) <= 1
            /\ pc[h] = "idle" => (Held(h) = {} /\ Awaited(h) = {}))
    /\ \A h \in LiveHandlers :
          /\ (pc[h] \in {"waitW", "waitR"}) ~> (pc[h] = "cancelled" \/ Held(h) # {})
          /\ (pc[h] # "idle") ~> (pc[h] = "idle")

\* a writer waits behind a reader that holds the lock, and another reader has
\* already arrived behind the writer
C20_Witness ==
    \E h, g, r \in LiveHandlers :
        /\ pc[h] = "waitW" /\ lock[2].waiters # <<>> /\ Head(lock[2].waiters).h = h
        /\ pc[g] \in {"read", "read2", "built"} /\ g \in lock[2].readers
        /\ pc[r] = "waitR" /\ req[r].id = 2

====
